---- MODULE Spec2Model ----
(***************************************************************************)
(* Response decoding of multiwoz-mdrg (src/models/model.py): the beam      *)
(* search of Model.decode over BeamSearchNode objects kept in a            *)
(* queue.PriorityQueue, Model.greedy_decode, and the decoder step of       *)
(* MoESeqAttnDecoderRNN.                                                   *)
(*                                                                         *)
(* Abstractions.  A decoder step is a deterministic function of its input  *)
(* token and hidden state; a hidden state is represented by the sequence   *)
(* of tokens consumed since the initial hidden state, which is the most    *)
(* general such function.  The function is sampled lazily into `dec`: the  *)
(* first call on a history draws the result, later calls read it back.     *)
(* Of a step's distribution only torch.topk(., beam_width) is kept.        *)
(* Log-probabilities are negative integers (multiples of a unit) and the   *)
(* quotient logp / (leng - 1 + 1e-6) is an exact rational <<num, den>>;    *)
(* floating-point rounding is not modelled.  The source gives up above    *)
(* 2000 pushed nodes; the model gives up above NodeCap and every formula  *)
(* about the cap is stated relative to NodeCap.  decode is modelled for   *)
(* one batch element.                                                      *)
(*                                                                         *)
(* A step of MoESeqAttnDecoderRNN.forward is followed on its own, on a     *)
(* batch: expert_forward is a fixed row-wise network whose result tells    *)
(* its arguments apart, float tensor entries are exact rationals, gate     *)
(* logits are whole multiples of ln 2 and log_softmax is kept to a         *)
(* hundredth of that unit.                                                 *)
(***************************************************************************)
EXTENDS Integers, Sequences, FiniteSets, TLC

\* ---------------------------------------------------------------- bounds
MaxBeam == 2        \* beam widths 1..MaxBeam
NodeCap == 5        \* stands for the 2000 of `if qsize > 2000: break`
MaxLen  == 6        \* args.max_len ranges over 1..MaxLen
BatchSize  == 2     \* batch elements 1..BatchSize of a decoder step
MaxIntents == 2     \* len(intent2index) ranges over 1..MaxIntents
MaxLogit   == 1     \* gate logits range over 0..MaxLogit (in units of ln 2)
MaxTarget  == 3     \* target_tensor.size(1) ranges over 1..MaxTarget
MaxTwice   == 2     \* args.max_len ranges over 1..MaxTwice where decode runs twice

\* ------------------------------------------------------ program constants
SOS_token == 0
EOS_token == 1
UNK_token == 2
PAD_token == 3
topk      == 1
EpsInv    == 1000000    \* 1 / 1e-6, the epsilon of BeamSearchNode.eval

None == 0               \* prevNode of the root; node identities are 1, 2, ...

\* The output dictionary handed to Model.__init__ (ids 0-3 are reserved).
output_lang_index2word ==
    [i \in 0..5 |-> CASE i = 0 -> "_SOS" [] i = 1 -> "_EOS" [] i = 2 -> "_UNK"
                      [] i = 3 -> "_PAD" [] i = 4 -> "hello" [] OTHER -> "world"]

\* Tokens a decoder step ranks first in the modelled runs.
PredTokens == {EOS_token, 4, 5}

\* Log-probabilities of the ranked tokens (with one hypothesis in the queue
\* no two scores are ever compared, so one value is enough for width 1).
LogProbs(K) == IF K = 1 THEN {-1} ELSE {-1, -2, -3}

VARIABLES
    pc,                 \* position in test.decode / Model.decode
    mode,               \* "beam": decode with beam search; "both": greedy, then beam
    beam_width,         \* args.beam_width
    max_len,            \* args.max_len
    dec,                \* the decoder step function, sampled so far
    tree,               \* every BeamSearchNode created, by identity
    nodes,              \* the PriorityQueue's heap of (score, node) tuples
    endnodes,           \* completed (score, node) tuples
    number_required,
    qsize,
    decoded_sentences,  \* result of the beam-search branch
    lastPop,            \* the last nodes.get() of the loop: what it returned, from which queue
    ncalls,             \* decoder invocations per popped node
    decoder_input,      \* greedy_decode: next input token
    decoder_hidden,     \* greedy_decode: current hidden state
    decoded_words,      \* greedy_decode: arg-max token of every step so far
    t,                  \* greedy_decode: step counter
    greedy_sentences,   \* result of greedy_decode
    error,              \* exception that left decode, or "none"
    args,               \* the options build_model reads
    decoder_type,       \* the decoder build_model chose: "plain", "attn" or "moe";
                        \* "none" while self.decoder is not assigned
    dropout,            \* args.dropout
    index2word_keys,    \* the ids that have an entry in output_lang_index2word
    decoder_hiddens,    \* decode: the initial hidden state of every batch element
    idx,                \* decode: the batch index of the beam-search loop
    mpc,                \* position in MoESeqAttnDecoderRNN.forward
    fwd_input,          \* forward's input: previous token per batch element
    fwd_hidden,         \* forward's hidden: (h, c) per batch element
    encoder_outputs,    \* forward's encoder_outputs, per batch element
    mask_tensor,        \* forward's mask_tensor: None, or one mask per intent
    gamma_expert,       \* args.gamma_expert
    moe_fc,             \* the gate self.moe_fc as sampled: its logit profile
    decoder_output_list,
    decoder_hidden_list,
    gate,               \* moe_layer: moe_weights at each stage of its computation
    returned,           \* what forward returned
    passes,             \* the inputs of every expert_forward pass, in call order
    train_pc,           \* position in Model.forward (training)
    batch_size,         \* Model.forward: input_tensor.size(0)
    target_tensor,      \* Model.forward: ground-truth tokens, [batch][step]
    teacher_ratio,      \* args.teacher_ratio
    SentMoE,            \* args.SentMoE
    train_loop,         \* Model.forward: 1 in the first loop, 2 in the SentMoE loop
    train_t,            \* Model.forward: the loop variable t
    train_input,        \* Model.forward: decoder_input, its shape and entries
    topi,               \* Model.forward: arg-max tokens of the last decoder step
    use_teacher_forcing, \* Model.forward: the last draw
    train_hidden,       \* Model.forward: decoder_hidden, as the number of decoder
                        \* steps taken from the policy's initial hidden state
    proba               \* Model.forward: per slot, the step whose decoder_output
                        \* it holds (0: the zeros it was created with)

vars == <<pc, mode, beam_width, max_len, dec, tree, nodes, endnodes, number_required,
          qsize, decoded_sentences, lastPop, ncalls, decoder_input, decoder_hidden,
          decoded_words, t, greedy_sentences, error,
          args, decoder_type, dropout, index2word_keys, decoder_hiddens, idx,
          mpc, fwd_input, fwd_hidden, encoder_outputs, mask_tensor, gamma_expert, moe_fc,
          decoder_output_list, decoder_hidden_list, gate, returned, passes,
          train_pc, batch_size, target_tensor, teacher_ratio, SentMoE, train_loop,
          train_t, train_input, topi, use_teacher_forcing, train_hidden, proba>>

trainVars == <<train_pc, batch_size, target_tensor, teacher_ratio, SentMoE, train_loop,
               train_t, train_input, topi, use_teacher_forcing, train_hidden, proba>>

decodeVars == <<pc, mode, beam_width, max_len, dec, tree, nodes, endnodes,
                number_required, qsize, decoded_sentences, lastPop, ncalls,
                decoder_input, decoder_hidden, decoded_words, t, greedy_sentences, error,
                args, decoder_type, dropout, index2word_keys, decoder_hiddens, idx>>

setupVars == <<args, decoder_type, dropout, index2word_keys, decoder_hiddens>>

moeVars == <<mpc, fwd_input, fwd_hidden, encoder_outputs, mask_tensor, gamma_expert, moe_fc,
             decoder_output_list, decoder_hidden_list, gate, returned, passes>>

beamVars == <<tree, nodes, endnodes, number_required, qsize, decoded_sentences,
              lastPop, ncalls>>
greedyVars == <<decoder_input, decoder_hidden, decoded_words, t, greedy_sentences>>

\* ------------------------------------------------------------- rationals
RatLT(a, b) == a[1] * b[2] < b[1] * a[2]
RatEQ(a, b) == a[1] * b[2] = b[1] * a[2]
RatNeg(a)   == <<0 - a[1], a[2]>>

\* ------------------------------------------------------- BeamSearchNode
BeamSearchNode(h, prevNode, wordid, logp, leng) ==
    [h |-> h, prevNode |-> prevNode, wordid |-> wordid, logp |-> logp, leng |-> leng]

\* eval with the reward hook wired to its arguments
evalWithReward(self, repeatPenalty, tokenReward, scoreTable, alpha) ==
    LET den == (self.leng - 1) * EpsInv + 1
    IN  <<self.logp + alpha * tokenReward * den, den>>

\* self.logp / float(self.leng - 1 + 1e-6) + alpha * reward, with reward = 0
\* and alpha overwritten by 1.0.  The value is kept in units of EpsInv = 1/1e-6:
\* logp / (leng - 1 + 1e-6) = EpsInv * logp / ((leng - 1) * EpsInv + 1), which
\* keeps every comparison exact within 32-bit integers.
eval(self, repeatPenalty, tokenReward, scoreTable, alpha) ==
    LET reward == 0
        alpha1 == 1
        den    == (self.leng - 1) * EpsInv + 1
    IN  <<self.logp + alpha1 * reward * den, den>>

\* the tuple (-node.eval(None, None, None, None), node) put on the queue
QueueItem(tr, n) == [score |-> RatNeg(eval(tr[n], None, None, None, None)), node |-> n]


\* ------------------------------------------- queue.PriorityQueue (heapq)
\* Python compares the tuples (score, node) element by element: with equal
\* scores it goes on to compare the two BeamSearchNode objects, which define
\* no ordering, and raises TypeError.
ItemCmp(a, b) ==
    IF RatEQ(a.score, b.score)
    THEN IF a.node = b.node THEN "ge" ELSE "TypeError"
    ELSE IF RatLT(a.score, b.score) THEN "lt" ELSE "ge"

Raised(heap) == [heap |-> heap, ok |-> FALSE]
Fine(heap)   == [heap |-> heap, ok |-> TRUE]

\* heapq._siftdown; positions are 0-based as in the library
RECURSIVE siftdown(_, _, _, _)
siftdown(heap, startpos, pos, newitem) ==
    IF pos > startpos
    THEN LET parentpos == (pos - 1) \div 2
             parent    == heap[parentpos + 1]
             c         == ItemCmp(newitem, parent)
         IN  IF c = "TypeError" THEN Raised(heap)
             ELSE IF c = "lt"
                  THEN siftdown([heap EXCEPT ![pos + 1] = parent], startpos, parentpos, newitem)
                  ELSE Fine([heap EXCEPT ![pos + 1] = newitem])
    ELSE Fine([heap EXCEPT ![pos + 1] = newitem])

\* heapq._siftup: bubble the smaller child up to a leaf, then sift newitem down
RECURSIVE siftup(_, _, _, _)
siftup(heap, startpos, pos, newitem) ==
    LET endpos   == Len(heap)
        childpos == 2 * pos + 1
        rightpos == childpos + 1
    IN  IF childpos < endpos
        THEN LET c == IF rightpos < endpos
                      THEN ItemCmp(heap[childpos + 1], heap[rightpos + 1])
                      ELSE "lt"
             IN  IF c = "TypeError" THEN Raised(heap)
                 ELSE LET ch == IF c = "lt" THEN childpos ELSE rightpos
                      IN  siftup([heap EXCEPT ![pos + 1] = heap[ch + 1]], startpos, ch, newitem)
        ELSE siftdown(heap, startpos, pos, newitem)

\* nodes.put(item): heapq.heappush
heappush(heap, item) == siftdown(Append(heap, item), 0, Len(heap), item)

\* nodes.get() on a non-empty queue: heapq.heappop
heappop(heap) ==
    LET lastelt == heap[Len(heap)]
        rest    == SubSeq(heap, 1, Len(heap) - 1)
    IN  IF rest # <<>>
        THEN LET r == siftup([rest EXCEPT ![1] = lastelt], 0, 0, lastelt)
             IN  [heap |-> r.heap, ok |-> r.ok, item |-> heap[1]]
        ELSE [heap |-> rest, ok |-> TRUE, item |-> lastelt]

\* for i in range(len(nextnodes)): nodes.put(nextnodes[i])
RECURSIVE putAll(_, _)
putAll(heap, nextnodes) ==
    IF nextnodes = <<>> THEN Fine(heap)
    ELSE LET r == heappush(heap, Head(nextnodes))
         IN  IF r.ok THEN putAll(r.heap, Tail(nextnodes)) ELSE r

InQueue(heap) == {heap[i].node : i \in 1..Len(heap)}

\* ---------------------------------------------------------- decoder step
\* the larger of the two
Max(a, b) == IF a < b THEN b ELSE a

\* min(a, b)
Min(a, b) == IF a < b THEN a ELSE b

\* The decoder's output layer has len(output_lang_index2word) units, one per
\* id below that number; of these the modelled runs rank first the
\* end-of-sequence token and the ids from 4 on (PredTokens for six entries).
Ranked == {EOS_token} \cup (4..(Cardinality(index2word_keys) - 1))

\* DecoderRNN.forward applies F.dropout(embedded, self.dropout_rate) whatever
\* the module's mode; the attention decoders apply none
HasDropout == decoder_type = "plain" /\ dropout[1] > 0

\* torch.topk(decoder_output, K): K distinct tokens, best first
TopKOutputs(K) ==
    {o \in [1..K -> [tok : Ranked, lp : LogProbs(K)]] :
        /\ \A i, j \in 1..K : i < j => o[i].tok # o[j].tok /\ o[i].lp >= o[j].lp}

\* self.decoder(input, hidden, ...): `out` is a possible result iff the function
\* has not been sampled at this history or was sampled as `out`; with dropout
\* every call draws its own mask, and any result is possible
DecoderGives(input, hidden, out) ==
    LET key == Append(hidden, input)
    IN  HasDropout \/ (key \in DOMAIN dec => dec[key] = out)

DecoderSampled(input, hidden, out) ==
    LET key == Append(hidden, input)
    IN  [k \in DOMAIN dec \cup {key} |-> IF k = key THEN out ELSE dec[k]]

output_index2word(index) == output_lang_index2word[index]

\* output_word2index: the id of a string, the unknown id without an entry
\* (output_lang_word2index is the inverse of the id-to-string table)
output_word2index(word) ==
    IF \E i \in index2word_keys \cap DOMAIN output_lang_index2word :
          output_lang_index2word[i] = word
    THEN CHOOSE i \in index2word_keys \cap DOMAIN output_lang_index2word :
            output_lang_index2word[i] = word
    ELSE 2

\* output_index2word raises UserWarning on some id of the sequence
LookupRaises(ids) == \E i \in 1..Len(ids) : ids[i] \notin index2word_keys


\* ------------------------------------------------- Model.decode, beam search
\* [nodes.get() for n in range(k)]
RECURSIVE getMany(_, _)
getMany(heap, k) ==
    IF k = 0 THEN [heap |-> heap, status |-> "ok", items |-> <<>>]
    ELSE IF heap = <<>> THEN [heap |-> heap, status |-> "blocked", items |-> <<>>]
    ELSE LET r == heappop(heap)
         IN  IF ~r.ok THEN [heap |-> r.heap, status |-> "TypeError", items |-> <<>>]
             ELSE LET more == getMany(r.heap, k - 1)
                  IN  [more EXCEPT !.items = <<r.item>> \o @]

\* sorted(endnodes, key=operator.itemgetter(0))[0]: the lowest score, the
\* earliest such entry first (the sort is stable and compares scores only)
FirstSorted(ends) ==
    LET best == CHOOSE i \in 1..Len(ends) :
                    /\ \A j \in 1..Len(ends) : ~RatLT(ends[j].score, ends[i].score)
                    /\ \A j \in 1..(i - 1) : RatLT(ends[i].score, ends[j].score)
    IN  ends[best]

\* utterance = [n.wordid]; while n.prevNode != None: ...; utterance[::-1]
RECURSIVE Backtrace(_, _)
Backtrace(tr, n) ==
    IF tr[n].prevNode = None THEN <<tr[n].wordid>>
    ELSE Append(Backtrace(tr, tr[n].prevNode), tr[n].wordid)

\* decoded_sentence[1:]
StripFirstOnly(s) == SubSeq(s, 2, Len(s))

\* decoded_sentence[1:-1]
Strip(s) == SubSeq(s, 2, Len(s) - 1)

\* ' '.join(decoded_sentence[1:-1]) of the words of the utterance
Sentence(utterance) ==
    Strip([i \in 1..Len(utterance) |-> output_index2word(utterance[i])])

\* lines 622-645: the next batch element, its root node and its queue
BeamStart ==
    /\ pc = "beam_start"
    /\ UNCHANGED <<moeVars, trainVars, setupVars>>
    /\ LET root == BeamSearchNode(decoder_hiddens[idx], None, SOS_token, 0, 1)
       IN  /\ tree' = <<root>>
           /\ nodes' = heappush(<<>>, QueueItem(<<root>>, 1)).heap
    /\ endnodes' = <<>>
    /\ number_required' = Min(topk + 1, topk - 0)
    /\ qsize' = 1
    /\ ncalls' = <<0>>
    /\ pc' = "loop"
    /\ UNCHANGED <<idx, mode, beam_width, max_len, dec, decoded_sentences, lastPop,
                   greedyVars, error>>

\* if qsize >= 2000
GiveUpAtCap(q) == q >= NodeCap

\* line 648: if qsize > 2000
GiveUp(q) == q > NodeCap

\* line 648: ... break
BeamGiveUp ==
    /\ pc = "loop"
    /\ UNCHANGED <<moeVars, trainVars, setupVars>>
    /\ GiveUp(qsize)
    /\ pc' = "select"
    /\ UNCHANGED <<idx, mode, beam_width, max_len, dec, beamVars, greedyVars, error>>

\* the children of node n for the step result `out` (lines 672-678)
Children(n, out) ==
    [k \in 1..beam_width |->
        BeamSearchNode(Append(tree[n].h, tree[n].wordid), n, out[k].tok,
                       tree[n].logp + out[k].lp, tree[n].leng + 1)]

\* n.wordid.item() == EOS_token or n.prevNode != None
IsCompleteOr(node) == node.wordid = EOS_token \/ node.prevNode # None

\* line 655: n.wordid.item() == EOS_token and n.prevNode != None
IsComplete(node) == node.wordid = EOS_token /\ node.prevNode # None

\* lines 650-686: one pass of the loop body
BeamIterate ==
    /\ pc = "loop"
    /\ UNCHANGED <<moeVars, trainVars, setupVars>>
    /\ ~GiveUp(qsize)
    /\ IF nodes = <<>>
       THEN /\ pc' = "blocked"
            /\ UNCHANGED <<dec, beamVars, error>>
       ELSE LET r == heappop(nodes)
                n == r.item.node
            IN  IF ~r.ok
                THEN /\ pc' = "raised"
                     /\ error' = "TypeError"
                     /\ nodes' = r.heap
                     /\ UNCHANGED <<dec, tree, endnodes, number_required, qsize,
                                    decoded_sentences, lastPop, ncalls>>
                ELSE /\ lastPop' = [node |-> n, score |-> r.item.score, queue |-> nodes]
                     /\ IF IsComplete(tree[n])
                        THEN /\ endnodes' = Append(endnodes, r.item)
                             /\ nodes' = r.heap
                             /\ pc' = IF Len(endnodes') >= number_required
                                      THEN "select" ELSE "loop"
                             /\ UNCHANGED <<dec, tree, number_required, qsize,
                                            decoded_sentences, ncalls, error>>
                        ELSE \E out \in TopKOutputs(beam_width) :
                             /\ DecoderGives(tree[n].wordid, tree[n].h, out)
                             /\ dec' = DecoderSampled(tree[n].wordid, tree[n].h, out)
                             /\ ncalls' = [ncalls EXCEPT ![n] = @ + 1]
                                            \o [k \in 1..beam_width |-> 0]
                             /\ tree' = tree \o Children(n, out)
                             /\ LET nextnodes == [k \in 1..beam_width |->
                                                    QueueItem(tree', Len(tree) + k)]
                                    p == putAll(r.heap, nextnodes)
                                IN  /\ nodes' = p.heap
                                    /\ IF p.ok
                                       THEN /\ qsize' = qsize + Len(nextnodes)
                                            /\ pc' = "loop"
                                            /\ error' = error
                                       ELSE /\ qsize' = qsize
                                            /\ pc' = "raised"
                                            /\ error' = "TypeError"
                             /\ UNCHANGED <<endnodes, number_required, decoded_sentences>>
    /\ UNCHANGED <<idx, mode, beam_width, max_len, greedyVars>>

\* lines 688-709: choose the hypothesis, back-trace it, map it to words, and
\* go on to the next batch element or return
BeamSelect ==
    /\ pc = "select"
    /\ UNCHANGED <<moeVars, trainVars, setupVars>>
    /\ LET g    == IF Len(endnodes) = 0 THEN getMany(nodes, topk)
                   ELSE [heap |-> nodes, status |-> "ok", items |-> endnodes]
           u    == Backtrace(tree, FirstSorted(g.items).node)
       IN  /\ nodes' = g.heap
           /\ IF g.status = "ok"
              THEN /\ endnodes' = g.items
                   /\ IF LookupRaises(u)
                      THEN /\ pc' = "raised"
                           /\ error' = "UserWarning"
                           /\ UNCHANGED <<decoded_sentences, idx>>
                      ELSE /\ decoded_sentences' = Append(decoded_sentences, Sentence(u))
                           /\ error' = error
                           /\ IF idx < Len(decoder_hiddens)
                              THEN idx' = idx + 1 /\ pc' = "beam_start"
                              ELSE idx' = idx /\ pc' = "done"
              ELSE /\ pc' = IF g.status = "blocked" THEN "blocked" ELSE "raised"
                   /\ error' = IF g.status = "blocked" THEN error ELSE g.status
                   /\ UNCHANGED <<endnodes, decoded_sentences, idx>>
    /\ UNCHANGED <<mode, beam_width, max_len, dec, tree, number_required, qsize,
                   lastPop, ncalls, greedyVars>>

\* ------------------------------------------------------ Model.greedy_decode
\* ------------------------------------------------------ Model.build_model
\* Python's None for an option, and the decoder of a model whose self.decoder
\* was never assigned
NoneOption == "None"
NoDecoder == "none"

\* the truth value Python gives an option string
Truthy(option) == option \notin {NoneOption, ""}

Args(intent_type, use_moe_model, use_attn, attention_type) ==
    [intent_type |-> intent_type, use_moe_model |-> use_moe_model,
     use_attn |-> use_attn, attention_type |-> attention_type]

\* lines 480-486: the decoder self.decoder is assigned, NoDecoder when no
\* branch assigns it
build_model(a) ==
    IF Truthy(a.intent_type) /\ a.use_moe_model THEN "moe"
    ELSE IF a.use_attn
         THEN IF a.attention_type = "bahdanau" THEN "attn" ELSE NoDecoder
    ELSE "plain"

\* options with which build_model chooses the given decoder
ArgsOf(type) ==
    IF type = "moe" THEN Args("domain", TRUE, TRUE, "bahdanau")
    ELSE IF type = "attn" THEN Args(NoneOption, FALSE, TRUE, "bahdanau")
    ELSE Args(NoneOption, FALSE, FALSE, "bahdanau")

\* Model.__init__ calls build_model; test.py then decodes with the model
BuildModel ==
    /\ pc = "build"
    /\ decoder_type' = build_model(args)
    /\ pc' = "greedy"
    /\ UNCHANGED <<args, dropout, index2word_keys, decoder_hiddens, idx, mode,
                   beam_width, max_len, dec, beamVars, greedyVars, error>>
    /\ UNCHANGED <<moeVars, trainVars>>

\* a loop that also ends at a predicted end-of-sequence token
InRangeUntilEOS(i, n) ==
    IF i = 0 THEN i < n ELSE i < n /\ decoded_words[i] # EOS_token

\* line 724: for t in range(self.max_len), with i steps done
InRange(i, n) == i < n

\* lines 724-731: one step of the loop over range(self.max_len)
GreedyStep ==
    /\ pc = "greedy"
    /\ UNCHANGED <<moeVars, trainVars, setupVars>>
    /\ InRange(t, max_len)
    /\ IF decoder_type = NoDecoder
       THEN /\ pc' = "raised"
            /\ error' = "AttributeError"
            /\ UNCHANGED <<dec, decoded_words, decoder_input, decoder_hidden, t>>
       ELSE /\ \E out \in TopKOutputs(beam_width) :
                /\ DecoderGives(decoder_input, decoder_hidden, out)
                /\ dec' = DecoderSampled(decoder_input, decoder_hidden, out)
                /\ decoded_words' = [decoded_words EXCEPT ![t + 1] = out[1].tok]
                /\ decoder_input' = out[1].tok
            /\ decoder_hidden' = Append(decoder_hidden, decoder_input)
            /\ t' = t + 1
            /\ UNCHANGED <<pc, error>>
    /\ UNCHANGED <<idx, mode, beam_width, max_len, beamVars, greedy_sentences>>

\* the words of a sentence without its end-of-sequence words
RECURSIVE WithoutEOS(_)
WithoutEOS(sentence) ==
    IF sentence = <<>> THEN <<>>
    ELSE IF output_index2word(Head(sentence)) = output_index2word(EOS_token)
         THEN WithoutEOS(Tail(sentence))
    ELSE <<output_index2word(Head(sentence))>> \o WithoutEOS(Tail(sentence))

\* lines 733-739: the words before the first end-of-sequence word
RECURSIVE UpToEOS(_)
UpToEOS(sentence) ==
    IF sentence = <<>> THEN <<>>
    ELSE IF output_index2word(Head(sentence)) = output_index2word(EOS_token) THEN <<>>
    ELSE <<output_index2word(Head(sentence))>> \o UpToEOS(Tail(sentence))

\* lines 733-737: the ids handed to output_index2word, which are those up to
\* and including the first end-of-sequence token
RECURSIVE LookedUp(_)
LookedUp(sentence) ==
    IF sentence = <<>> THEN <<>>
    ELSE IF Head(sentence) = EOS_token THEN <<EOS_token>>
    ELSE <<Head(sentence)>> \o LookedUp(Tail(sentence))

\* lines 733-741: the sentence is assembled and greedy_decode returns; test.py
\* then decodes the same turn with beam search
GreedyAssemble ==
    /\ pc = "greedy"
    /\ UNCHANGED <<moeVars, trainVars, setupVars>>
    /\ ~InRange(t, max_len)
    /\ IF LookupRaises(LookedUp(decoded_words) \o <<EOS_token>>)
       THEN /\ pc' = "raised"
            /\ error' = "UserWarning"
            /\ UNCHANGED greedy_sentences
       ELSE /\ greedy_sentences' = Append(greedy_sentences, UpToEOS(decoded_words))
            /\ pc' = IF mode = "twice" THEN "greedy_done" ELSE "beam_start"
            /\ error' = error
    /\ UNCHANGED <<idx, mode, beam_width, max_len, dec, beamVars, decoder_input,
                   decoder_hidden, decoded_words, t>>

\* decode is invoked once more on the same inputs, greedily
GreedyAgain ==
    /\ pc = "greedy_done"
    /\ Len(greedy_sentences) < 2
    /\ UNCHANGED <<moeVars, trainVars, setupVars>>
    /\ decoder_input' = SOS_token
    /\ decoder_hidden' = decoder_hiddens[1]
    /\ decoded_words' = [i \in 1..max_len |-> 0]
    /\ t' = 0
    /\ pc' = "greedy"
    /\ UNCHANGED <<idx, mode, beam_width, max_len, dec, beamVars, greedy_sentences, error>>

\* ------------------------------------------ MoESeqAttnDecoderRNN, one step
\* Float tensor entries are exact rationals <<num, den>> with den > 0, and a
\* tensor is indexed by batch element (the vocabulary and hidden dimensions
\* are represented by one coordinate each).  <<0, 0>> is NaN.
RECURSIVE GCD(_, _)
GCD(a, b) == IF b = 0 THEN a ELSE GCD(b, a % b)

Abs(n) == IF n < 0 THEN 0 - n ELSE n

Rat(n, d) ==
    IF d = 0 THEN <<0, 0>>
    ELSE LET g == GCD(Abs(n), Abs(d))
             sg == IF d < 0 THEN 0 - 1 ELSE 1
         IN  <<sg * (n \div g), sg * (d \div g)>>

RatAdd(a, b) == Rat(a[1] * b[2] + b[1] * a[2], a[2] * b[2])
RatMul(a, b) == Rat(a[1] * b[1], a[2] * b[2])
One == <<1, 1>>

RECURSIVE RatSum(_)
RatSum(s) == IF s = <<>> THEN <<0, 1>> ELSE RatAdd(Head(s), RatSum(Tail(s)))

RECURSIVE IntSum(_)
IntSum(s) == IF s = <<>> THEN 0 ELSE Head(s) + IntSum(Tail(s))

Batch == 1..BatchSize

\* In-place masked_fill_ takes a mask that broadcasts to the tensor: along the
\* batch dimension the mask has the tensor's size or size 1.
Broadcastable(mask, x) == Len(mask) \in {1, Len(x)}

\* the mask as broadcast over a batch of n
expand(mask, n) == [b \in 1..n |-> IF Len(mask) = 1 THEN mask[1] ELSE mask[b]]

\* a fill of the entries the mask leaves alone
masked_keep(x, mask, value) ==
    [b \in DOMAIN x |-> IF expand(mask, Len(x))[b] THEN x[b] ELSE value]

\* x.clone().masked_fill_(mask, value): a copy of x, value where mask is True
masked_fill(x, mask, value) ==
    [b \in DOMAIN x |-> IF expand(mask, Len(x))[b] THEN value ELSE x[b]]

\* x.masked_fill_(mask, value) without the clone: what it leaves in x
filled_in_place(x, mask, value) == masked_fill(x, mask, value)

\* x.clone().masked_fill_(mask, value): what it leaves in x, the clone being
\* new storage
cloned(x, mask, value) == x

\* One pass of the attention decoder (embedding, attention, LSTM, projection,
\* log-softmax).  It works row by row: the result for a batch element is a
\* function of that element's token, (h, c) and encoder outputs alone.  The
\* network is a fixed one whose result tells its arguments apart.
expert_row(token, hc, enc) ==
    [output |-> RatNeg(RatAdd(<<token, 1>>, RatAdd(hc[1], enc))),
     hidden |-> <<RatAdd(hc[1], <<2 * token, 1>>), RatAdd(hc[2], enc)>>]

expert_forward(inp, hid, enc) ==
    [output |-> [b \in DOMAIN inp |-> expert_row(inp[b], hid[b], enc[b]).output],
     hidden |-> [b \in DOMAIN inp |-> expert_row(inp[b], hid[b], enc[b]).hidden]]

\* the arguments of one expert_forward call
Pass(inp, hid, enc) == [input |-> inp, hidden |-> hid, encoder_outputs |-> enc]

\* round(100 * log2(n)) for n = 1..32: logarithms are kept to a hundredth of
\* a bit, which stands for the rounding of the float computation
Log2x100 ==
    <<0, 100, 158, 200, 232, 258, 281, 300, 317, 332, 346, 358, 370, 381, 391, 400,
      409, 417, 425, 432, 439, 446, 452, 458, 464, 470, 475, 481, 486, 491, 495, 500>>

\* F.log_softmax(x, dim=1) of one row of logits given in units of ln 2; the
\* result is in hundredths of that unit
log_softmax(x) ==
    LET total == IntSum([j \in DOMAIN x |-> 2 ^ x[j]])
    IN  [j \in DOMAIN x |-> 100 * x[j] - Log2x100[total]]

\* self.moe_fc(cat_dec_out): the gate's logits, [Batch, Intent].  The linear
\* layer is represented by the logit rows it yields on this batch: row b is a
\* fixed one-to-one image of the drawn profile W (a rotation, complemented on
\* even rows), so that each row takes every logit vector and rows differ.
moe_fc_row(W, b) ==
    LET n == Len(W)
        r == [j \in 1..n |-> W[((j + b - 2) % n) + 1]]
    IN  IF b % 2 = 1 THEN r ELSE [j \in 1..n |-> MaxLogit - r[j]]

\* a normaliser taken over the whole tensor instead of per batch element
sum_all(moe_weights) ==
    [b \in DOMAIN moe_weights |->
        IntSum([c \in DOMAIN moe_weights |-> IntSum(moe_weights[c])])]

\* torch.sum(moe_weights, dim=1)
sum_dim1(moe_weights) == [b \in DOMAIN moe_weights |-> IntSum(moe_weights[b])]

\* torch.div(moe_weights, norm_weights.unsqueeze(1)) followed by permute(1, 0):
\* [Intent, Batch].  A float division by zero raises nothing and gives NaN.
div_permute(moe_weights, norm_weights) ==
    [j \in DOMAIN moe_weights[1] |->
        [b \in DOMAIN moe_weights |-> Rat(moe_weights[b][j], norm_weights[b])]]

\* the interpolation with gamma on the chair's side
interpolateSwapped(gamma, mixed, chair) ==
    RatAdd(RatMul(gamma, chair), RatMul(RatAdd(One, RatNeg(gamma)), mixed))

\* gamma_expert * mixed + (1 - gamma_expert) * chair
interpolate(gamma, mixed, chair) ==
    RatAdd(RatMul(gamma, mixed), RatMul(RatAdd(One, RatNeg(gamma)), chair))

\* stack(list).mul(weights).sum(0) for batch element b
mixture(list, weights, b) ==
    RatSum([j \in DOMAIN list |-> RatMul(list[j][b], weights[j][b])])

\* moe_layer, the weights: moe_fc, log_softmax over the passes, the sum over
\* dim 1 and the division, each stage kept as the code names it
moe_gate(W, B) ==
    LET logits == [b \in B |-> moe_fc_row(W, b)]
        logsm == [b \in B |-> log_softmax(logits[b])]
        norm_weights == sum_dim1(logsm)
    IN  [logits |-> logits, log_softmax |-> logsm, norm_weights |-> norm_weights,
         moe_weights |-> div_permute(logsm, norm_weights)]

\* moe_layer, the mixing: output and (h, c) are the weighted sums over the
\* passes, interpolated with the chair's by gamma_expert
moe_layer(output_list, hidden_list, gamma, moe_weights) ==
    LET B == DOMAIN output_list[1]
        hs == [j \in DOMAIN hidden_list |-> [b \in B |-> hidden_list[j][b][1]]]
        cs == [j \in DOMAIN hidden_list |-> [b \in B |-> hidden_list[j][b][2]]]
    IN  [output |-> [b \in B |-> interpolate(gamma, mixture(output_list, moe_weights, b),
                                             output_list[1][b])],
         hidden |-> [b \in B |->
                        <<interpolate(gamma, mixture(hs, moe_weights, b), hs[1][b]),
                          interpolate(gamma, mixture(cs, moe_weights, b), cs[1][b])>>]]

NoGate == [logits |-> <<>>, log_softmax |-> <<>>, norm_weights |-> <<>>,
           moe_weights |-> <<>>]
NoMask == [given |-> FALSE, masks |-> <<>>]
Masks(ms) == [given |-> TRUE, masks |-> ms]

\* forward dispatching to tokenMoE whatever mask_tensor is
IsNotNoneOrNone(m) == TRUE

\* `mask_tensor is not None`
IsNotNone(m) == m.given

\* forward: with no mask the single expert_forward pass is the whole step
Forward ==
    /\ mpc = "forward"
    /\ IF IsNotNone(mask_tensor)
       THEN /\ mpc' = "tokenMoE"
            /\ UNCHANGED <<returned, passes>>
       ELSE LET r == expert_forward(fwd_input, fwd_hidden, encoder_outputs)
            IN  /\ returned' = [output |-> r.output, hidden |-> r.hidden]
                /\ passes' = Append(passes, Pass(fwd_input, fwd_hidden, encoder_outputs))
                /\ mpc' = "return"
    /\ UNCHANGED <<fwd_input, fwd_hidden, encoder_outputs, mask_tensor, gamma_expert,
                   moe_fc, decoder_output_list, decoder_hidden_list, gate>>
    /\ UNCHANGED <<decodeVars, trainVars>>

\* tokenMoE: the chair's pass over the unmasked arguments
ChairPass ==
    /\ mpc = "tokenMoE"
    /\ LET r == expert_forward(fwd_input, fwd_hidden, encoder_outputs)
       IN  /\ decoder_output_list' = <<r.output>>
           /\ decoder_hidden_list' = <<r.hidden>>
    /\ passes' = Append(passes, Pass(fwd_input, fwd_hidden, encoder_outputs))
    /\ mpc' = "experts"
    /\ UNCHANGED <<fwd_input, fwd_hidden, encoder_outputs, mask_tensor, gamma_expert,
                   moe_fc, gate, returned>>
    /\ UNCHANGED <<decodeVars, trainVars>>

\* tokenMoE: one iteration of `for mask in mask_tensor`; masked_fill_ raises
\* RuntimeError on a mask it cannot broadcast
ExpertPass ==
    /\ mpc = "experts"
    /\ Len(decoder_output_list) <= Len(mask_tensor.masks)
    /\ LET mask == mask_tensor.masks[Len(decoder_output_list)]
           decoder_input_k == masked_fill(fwd_input, mask, PAD_token)
           decoder_hidden_k == masked_fill(fwd_hidden, mask,
                                           <<<<PAD_token, 1>>, <<PAD_token, 1>>>>)
           encoder_outputs_k == masked_fill(encoder_outputs, mask, <<PAD_token, 1>>)
           r == expert_forward(decoder_input_k, decoder_hidden_k, encoder_outputs_k)
       IN  IF ~Broadcastable(mask, fwd_input)
           THEN /\ mpc' = "raised"
                /\ UNCHANGED <<decoder_output_list, decoder_hidden_list, passes,
                               fwd_input, fwd_hidden, encoder_outputs>>
           ELSE /\ decoder_output_list' = Append(decoder_output_list, r.output)
                /\ decoder_hidden_list' = Append(decoder_hidden_list, r.hidden)
                /\ passes' = Append(passes, Pass(decoder_input_k, decoder_hidden_k,
                                                 encoder_outputs_k))
                /\ fwd_input' = cloned(fwd_input, mask, PAD_token)
                /\ fwd_hidden' = cloned(fwd_hidden, mask,
                                        <<<<PAD_token, 1>>, <<PAD_token, 1>>>>)
                /\ encoder_outputs' = cloned(encoder_outputs, mask, <<PAD_token, 1>>)
                /\ mpc' = mpc
    /\ UNCHANGED <<mask_tensor, gamma_expert, moe_fc, gate, returned>>
    /\ UNCHANGED <<decodeVars, trainVars>>

\* tokenMoE: the loop is over; moe_layer mixes the passes and forward returns.
\* The gate is sampled here, where it is applied: any logit profile.
MoELayer ==
    /\ mpc = "experts"
    /\ Len(decoder_output_list) > Len(mask_tensor.masks)
    /\ moe_fc' \in [1..Len(decoder_output_list) -> 0..MaxLogit]
    /\ gate' = moe_gate(moe_fc', DOMAIN decoder_output_list[1])
    /\ returned' = moe_layer(decoder_output_list, decoder_hidden_list, gamma_expert,
                             gate'.moe_weights)
    /\ mpc' = "return"
    /\ UNCHANGED <<fwd_input, fwd_hidden, encoder_outputs, mask_tensor, gamma_expert,
                   decoder_output_list, decoder_hidden_list, passes>>
    /\ UNCHANGED <<decodeVars, trainVars>>

\* ------------------------------------------------- Model.forward, training
\* A tensor of token ids is kept with its shape: "[B,1]", "[B]" or "[]".
Tensor(shape, data) == [shape |-> shape, data |-> data]

\* topi.squeeze() of a [B,1] tensor: every dimension of size 1 is dropped
squeeze(data) == Tensor(IF Len(data) = 1 THEN "[]" ELSE "[B]", data)

\* x.view(-1, 1)
view_B1(data) == Tensor("[B,1]", data)

\* target_tensor[:, t]
Column(tensor, step) == [b \in DOMAIN tensor |-> tensor[b][step]]

\* random.random() < teacher_ratio, random.random() being in [0, 1)
TeacherDraws(ratio) ==
    {u \in BOOLEAN : (u => ratio[1] > 0) /\ (~u => ratio[1] < ratio[2])}

\* lines 545-560: up to the first decoder_input
TrainStart ==
    /\ train_pc = "start"
    /\ train_input' = view_B1([b \in 1..batch_size |-> SOS_token])
    /\ train_loop' = 1
    /\ train_t' = 0
    /\ train_hidden' = 0
    /\ proba' = [slot \in 1..Len(target_tensor[1]) |-> 0]
    /\ train_pc' = "loop"
    /\ UNCHANGED <<batch_size, target_tensor, teacher_ratio, SentMoE, topi,
                   use_teacher_forcing>>
    /\ UNCHANGED <<decodeVars, moeVars>>

\* lines 567-579 and 584-597: one iteration.  The decoder step embeds its
\* input and concatenates along dimension 2, which takes a [B,1] input; on
\* any other shape it raises.
TrainStep ==
    /\ train_pc = "loop"
    /\ train_t < Len(target_tensor[1])
    /\ IF train_input.shape # "[B,1]"
       THEN /\ train_pc' = "raised"
            /\ UNCHANGED <<train_t, train_input, topi, use_teacher_forcing,
                           train_hidden, proba>>
       ELSE \E top \in [1..batch_size -> PredTokens], u \in TeacherDraws(teacher_ratio) :
            /\ topi' = top
            /\ use_teacher_forcing' = u
            /\ train_input' = IF u THEN view_B1(Column(target_tensor, train_t + 1))
                                   ELSE squeeze(top)
            /\ train_hidden' = train_hidden + 1
            /\ proba' = [proba EXCEPT ![train_t + 1] = train_hidden']
            /\ train_t' = train_t + 1
            /\ train_pc' = "loop"
    /\ UNCHANGED <<batch_size, target_tensor, teacher_ratio, SentMoE, train_loop>>
    /\ UNCHANGED <<decodeVars, moeVars>>

\* lines 582-602: the loop is over; with args.SentMoE it is run once more
TrainLoopEnd ==
    /\ train_pc = "loop"
    /\ train_t = Len(target_tensor[1])
    /\ IF SentMoE /\ train_loop = 1
       THEN /\ train_loop' = 2
            /\ train_t' = 0
            /\ train_pc' = "loop"
       ELSE /\ train_pc' = "return"
            /\ UNCHANGED <<train_loop, train_t>>
    /\ UNCHANGED <<batch_size, target_tensor, teacher_ratio, SentMoE, train_input, topi,
                   use_teacher_forcing, train_hidden, proba>>
    /\ UNCHANGED <<decodeVars, moeVars>>

\* ------------------------------------------------------------ specifications
InitCommon ==
    /\ dec = <<>>
    /\ tree = <<>>
    /\ nodes = <<>>
    /\ endnodes = <<>>
    /\ number_required = 0
    /\ qsize = 0
    /\ decoded_sentences = <<>>
    /\ lastPop = [node |-> None, score |-> <<0, 1>>, queue |-> <<>>]
    /\ ncalls = <<>>
    /\ decoder_input = SOS_token
    /\ decoder_hidden = <<>>
    /\ decoded_words = [i \in 1..max_len |-> 0]
    /\ t = 0
    /\ greedy_sentences = <<>>
    /\ error = "none"

\* no decoder step of its own is being followed
MoEIdle ==
    /\ mpc = "idle"
    /\ fwd_input = <<>>
    /\ fwd_hidden = <<>>
    /\ encoder_outputs = <<>>
    /\ mask_tensor = NoMask
    /\ gamma_expert = One
    /\ moe_fc = <<>>
    /\ decoder_output_list = <<>>
    /\ decoder_hidden_list = <<>>
    /\ gate = NoGate
    /\ returned = [output |-> <<>>, hidden |-> <<>>]
    /\ passes = <<>>

\* no training step is being followed
TrainIdle ==
    /\ train_pc = "idle"
    /\ batch_size = 1
    /\ target_tensor = <<>>
    /\ teacher_ratio = One
    /\ SentMoE = FALSE
    /\ train_loop = 1
    /\ train_t = 0
    /\ train_input = Tensor("[B,1]", <<>>)
    /\ topi = <<>>
    /\ use_teacher_forcing = TRUE
    /\ train_hidden = 0
    /\ proba = <<>>

\* The set-up of test.py: decodeWrapper sets args.dropout = 0.0; the table has
\* an entry for every id; one turn is decoded.
TestSetup ==
    /\ args = ArgsOf("attn")
    /\ decoder_type = "attn"
    /\ dropout = <<0, 1>>
    /\ index2word_keys = DOMAIN output_lang_index2word
    /\ decoder_hiddens = << <<>> >>
    /\ idx = 1

\* Model.decode with self.beam_search set, any beam width
Init ==
    /\ mode = "beam"
    /\ pc = "beam_start"
    /\ beam_width \in 1..MaxBeam
    /\ max_len = 1
    /\ InitCommon
    /\ TestSetup
    /\ MoEIdle
    /\ TrainIdle

Next == BeamStart \/ BeamGiveUp \/ BeamIterate \/ BeamSelect

Spec == Init /\ [][Next]_vars

\* test.decode: the same model decodes greedily, then with beam width 1
InitBoth ==
    /\ mode = "both"
    /\ pc = "greedy"
    /\ beam_width = 1
    /\ max_len \in 1..MaxLen
    /\ InitCommon
    /\ TestSetup
    /\ MoEIdle
    /\ TrainIdle

NextBoth == GreedyStep \/ GreedyAssemble \/ BeamStart \/ BeamGiveUp \/ BeamIterate \/ BeamSelect

SpecBoth == InitBoth /\ [][NextBoth]_vars

\* initial hidden states of batch elements (what encoder and policy made of
\* two different turns), as first entries of the histories
Hiddens == {<<10>>, <<11>>}

\* Model.decode with beam search on a batch of BatchSize turns, any of which
\* may be the same turn, with a table of five entries (one word besides the
\* reserved ids)
InitBatch ==
    /\ mode = "beam"
    /\ pc = "beam_start"
    /\ beam_width \in 1..MaxBeam
    /\ max_len = 1
    /\ InitCommon
    /\ args = ArgsOf("attn")
    /\ decoder_type = "attn"
    /\ dropout = <<0, 1>>
    /\ index2word_keys = 0..4
    /\ decoder_hiddens \in [1..BatchSize -> Hiddens]
    /\ idx = 1
    /\ MoEIdle
    /\ TrainIdle

SpecBatch == InitBatch /\ [][Next]_vars

\* test.decode on a table with a gap: six entries, so the decoder ranks the
\* ids 0..5, but id 5 has no entry (the sixth key is 6)
InitOOV ==
    /\ mode = "both"
    /\ pc = "greedy"
    /\ beam_width = 1
    /\ max_len \in 1..MaxLen
    /\ InitCommon
    /\ args = ArgsOf("attn")
    /\ decoder_type = "attn"
    /\ dropout = <<0, 1>>
    /\ index2word_keys = {0, 1, 2, 3, 4, 6}
    /\ decoder_hiddens = << <<>> >>
    /\ idx = 1
    /\ MoEIdle
    /\ TrainIdle

SpecOOV == InitOOV /\ [][NextBoth]_vars

\* args.dropout
DropoutRates == {<<0, 1>>, <<1, 10>>}

\* Model.decode is invoked twice on the same turn, greedily, for each decoder
\* build_model can choose and with or without dropout
InitTwice ==
    /\ mode = "twice"
    /\ pc = "greedy"
    /\ beam_width = 1
    /\ max_len \in 1..MaxTwice
    /\ InitCommon
    /\ decoder_type \in {"plain", "attn", "moe"}
    /\ args = ArgsOf(decoder_type)
    /\ dropout \in DropoutRates
    /\ index2word_keys = DOMAIN output_lang_index2word
    /\ decoder_hiddens = << <<>> >>
    /\ idx = 1
    /\ MoEIdle
    /\ TrainIdle

NextTwice == GreedyStep \/ GreedyAssemble \/ GreedyAgain

SpecTwice == InitTwice /\ [][NextTwice]_vars

\* values of the options build_model reads
IntentTypes == {NoneOption, "domain", "sysact"}
AttentionTypes == {"bahdanau", "luong", "none"}

\* Model.__init__ with any options, and the model then decoding a turn
\* greedily, twice
InitBuild ==
    /\ mode = "twice"
    /\ pc = "build"
    /\ beam_width = 1
    /\ max_len \in 1..MaxTwice
    /\ InitCommon
    /\ args \in {Args(i, m, u, a) : i \in IntentTypes, m \in BOOLEAN, u \in BOOLEAN,
                                    a \in AttentionTypes}
    /\ decoder_type = NoDecoder
    /\ dropout = <<0, 1>>
    /\ index2word_keys = DOMAIN output_lang_index2word
    /\ decoder_hiddens = << <<>> >>
    /\ idx = 1
    /\ MoEIdle
    /\ TrainIdle

NextBuild == BuildModel \/ GreedyStep \/ GreedyAssemble \/ GreedyAgain

SpecBuild == InitBuild /\ [][NextBuild]_vars

\* args.gamma_expert
Gammas == {<<0, 1>>, <<1, 2>>, One}

\* Mask lists for k intents, each mask [Batch] of booleans.  A batch element is
\* left unmasked by no intent, by one intent, or by all of them.
MaskLists(k) ==
    {ms \in [1..k -> [Batch -> BOOLEAN]] :
        \A b \in Batch : Cardinality({i \in 1..k : ~ms[i][b]}) \in {0, 1, k}}

\* The arguments of the call: previous tokens, (h, c) and encoder outputs of
\* the batch, every element's different from the others' and from PAD_token
input == [b \in Batch |-> PAD_token + b]
hidden == [b \in Batch |-> <<<<PAD_token + b, 1>>, <<PAD_token + 2 * b, 1>>>>]
encoder_outputs_arg == [b \in Batch |-> <<PAD_token + 3 * b, 1>>]

\* One call of MoESeqAttnDecoderRNN.forward on a batch, for a model of k
\* intents: any gamma, and mask_tensor None or a list of k masks.
InitMoE ==
    /\ mode = "moe"
    /\ pc = "idle"
    /\ beam_width = 1
    /\ max_len = 1
    /\ InitCommon
    /\ TestSetup
    /\ mpc = "forward"
    /\ fwd_input = input
    /\ fwd_hidden = hidden
    /\ encoder_outputs = encoder_outputs_arg
    /\ \E k \in 1..MaxIntents :
          mask_tensor \in {NoMask} \cup {Masks(ms) : ms \in MaskLists(k)}
    /\ moe_fc = <<>>
    /\ gamma_expert \in Gammas
    /\ decoder_output_list = <<>>
    /\ decoder_hidden_list = <<>>
    /\ gate = NoGate
    /\ returned = [output |-> <<>>, hidden |-> <<>>]
    /\ passes = <<>>
    /\ TrainIdle

NextMoE == Forward \/ ChairPass \/ ExpertPass \/ MoELayer

SpecMoE == InitMoE /\ [][NextMoE]_vars

\* One call of MoESeqAttnDecoderRNN.forward with masks whose batch dimension
\* is not the batch's: 1, or any other size up to BatchSize + 1.
InitMoEShape ==
    /\ mode = "moe"
    /\ pc = "idle"
    /\ beam_width = 1
    /\ max_len = 1
    /\ InitCommon
    /\ TestSetup
    /\ mpc = "forward"
    /\ fwd_input = input
    /\ fwd_hidden = hidden
    /\ encoder_outputs = encoder_outputs_arg
    /\ \E k \in 1..MaxIntents, M \in (1..(BatchSize + 1)) \ {BatchSize} :
          mask_tensor \in {Masks(ms) : ms \in [1..k -> [1..M -> BOOLEAN]]}
    /\ moe_fc = <<>>
    /\ gamma_expert \in Gammas
    /\ decoder_output_list = <<>>
    /\ decoder_hidden_list = <<>>
    /\ gate = NoGate
    /\ returned = [output |-> <<>>, hidden |-> <<>>]
    /\ passes = <<>>
    /\ TrainIdle

SpecMoEShape == InitMoEShape /\ [][NextMoE]_vars

\* args.teacher_ratio
TeacherRatios == {<<0, 1>>, <<1, 2>>, One}

\* One call of Model.forward: any batch size, target length, teacher ratio and
\* SentMoE flag; the targets are one sentence per element ending in EOS.
InitTrain ==
    /\ mode = "train"
    /\ pc = "idle"
    /\ beam_width = 1
    /\ max_len = 1
    /\ InitCommon
    /\ TestSetup
    /\ MoEIdle
    /\ train_pc = "start"
    /\ batch_size \in 1..BatchSize
    /\ \E len \in 1..MaxTarget :
          target_tensor = [b \in 1..batch_size |->
                              [i \in 1..len |-> IF i = len THEN EOS_token
                                                ELSE 4 + ((b + i) % 2)]]
    /\ teacher_ratio \in TeacherRatios
    /\ SentMoE \in BOOLEAN
    /\ train_loop = 1
    /\ train_t = 0
    /\ train_input = Tensor("[B,1]", <<>>)
    /\ topi = <<>>
    /\ use_teacher_forcing = TRUE
    /\ train_hidden = 0
    /\ proba = <<>>

NextTrain == TrainStart \/ TrainStep \/ TrainLoopEnd

SpecTrain == InitTrain /\ [][NextTrain]_vars


\* ------------------------------------------------------------------ claims
\* the loop was left by one of its two break statements
LoopLeft == pc \in {"select", "done"}

\* the decoder step never ranked end-of-sequence among the tokens it returned
NoEOSPredicted == \A n \in 1..Len(tree) : tree[n].wordid # EOS_token

\* the first end-of-sequence token of the arg-max chain lies within the first
\* max_len steps and within the first NodeCap steps
EOSInReach == \E i \in 1..Min(max_len, NodeCap) : decoded_words[i] = EOS_token

\* C1 as stated: with beam width 1 the beam-search branch returns the sentence
\* of greedy_decode, whatever max_len is and wherever the first end-of-sequence
\* token of the arg-max chain lies.
C1_BeamEqualsGreedy ==
    pc = "done" => decoded_sentences = greedy_sentences

\* C1 amended: with beam width 1 the beam-search branch returns the sentence of
\* greedy_decode whenever the first end-of-sequence token of the arg-max chain
\* lies within the first min(max_len, cap) steps.
C1_BeamEqualsGreedyWithinReach ==
    (pc = "done" /\ EOSInReach) => decoded_sentences = greedy_sentences

C1_Witness ==
    /\ pc = "done"
    /\ EOSInReach
    /\ ~GiveUp(qsize)
    /\ Len(decoded_sentences[1]) >= 2
    /\ max_len > Len(decoded_sentences[1]) + 1

\* C2: once the beam-search loop has stopped, the number of COMPLETE nodes has
\* reached the required count or the pushed-node counter exceeds the cap.
C2_StopsOnCountOrCap ==
    pc \notin {"beam_start", "loop"} =>
        (Len(endnodes) >= number_required \/ qsize > NodeCap)

\* C3 as stated: with a decoder step that never predicts end-of-sequence, the
\* pushed-node counter equals the cap when the loop stops.
C3_HaltsExactlyAtCap ==
    (LoopLeft /\ NoEOSPredicted) => qsize = NodeCap

\* C3 amended: with a decoder step that never predicts end-of-sequence, a loop
\* that stops has stopped at the cap check with the counter above the cap by at
\* most the beam width (the first value 1 + K * m beyond the cap), every pushed
\* node counted.
C3_HaltsJustAboveCap ==
    (LoopLeft /\ NoEOSPredicted) =>
        /\ qsize > NodeCap
        /\ qsize <= NodeCap + beam_width
        /\ qsize = Len(tree)
        /\ (qsize - 1) % beam_width = 0

C3_Witness ==
    /\ pc = "done"
    /\ NoEOSPredicted
    /\ beam_width > 1
    /\ qsize = NodeCap + beam_width

\* C4: when the loop stopped at the cap with no completed hypothesis, the
\* sentence returned holds at least one generated token.
C4_FallbackSentenceNonEmpty ==
    (pc = "done" /\ qsize > NodeCap) => decoded_sentences[1] # <<>>

\* C5: beam search never raises.
C5_NeverRaises == error = "none"

\* C6: the sentence returned is the word sequence of the chosen node's parent
\* chain without the start and end markers, no other token dropped.
C6_SentenceIsChain ==
    pc = "done" =>
        LET chain == Backtrace(tree, FirstSorted(endnodes).node)
            NotMarker(w) == w # SOS_token /\ w # EOS_token
            kept  == SelectSeq(chain, NotMarker)
        IN  decoded_sentences[1] = [i \in 1..Len(kept) |-> output_lang_index2word[kept[i]]]

\* values tried for the hook arguments of BeamSearchNode.eval
HookValues == {None, 1, 2}

\* C7: every get() of the loop returns a node of the queue whose score is the
\* lowest in the queue, and every score in the queue is -logp/(leng - 1 + 1e-6)
\* whatever the hook arguments of eval are.
C7_PopsLowestScore ==
    lastPop.node # None =>
        /\ lastPop.node \in InQueue(lastPop.queue)
        /\ \A i \in 1..Len(lastPop.queue) :
            LET q  == lastPop.queue[i]
                nd == tree[q.node]
            IN  /\ ~RatLT(q.score, lastPop.score)
                /\ q.score = <<0 - nd.logp, (nd.leng - 1) * EpsInv + 1>>
                /\ \A rp, tr, st, al \in HookValues :
                      RatNeg(eval(nd, rp, tr, st, al)) = q.score

C7_Witness ==
    /\ lastPop.node # None
    /\ Len(lastPop.queue) >= 3
    /\ \E i \in 1..Len(lastPop.queue) :
          /\ lastPop.queue[i].node < lastPop.node
          /\ RatLT(lastPop.score, lastPop.queue[i].score)

\* C8: a popped node is COMPLETE iff its token is end-of-sequence and it has a
\* parent; a COMPLETE node is never given to the decoder; any other popped node
\* is expanded by exactly one decoder invocation; no node is expanded twice.
C8_CompleteIffEOSWithParent ==
    /\ \A n \in 1..Len(tree) :
          /\ ncalls[n] <= 1
          /\ ncalls[n] = 1 => ~(tree[n].wordid = EOS_token /\ tree[n].prevNode # None)
    /\ \A i \in 1..Len(endnodes) : ncalls[endnodes[i].node] = 0
    /\ pc \in {"loop", "select"} =>
          \A i \in 1..Len(endnodes) :
              LET e == tree[endnodes[i].node]
              IN  e.wordid = EOS_token /\ e.prevNode # None
    /\ lastPop.node # None =>
          LET n == lastPop.node
              isEnd == \E i \in 1..Len(endnodes) : endnodes[i].node = n
          IN  IF tree[n].wordid = EOS_token /\ tree[n].prevNode # None
              THEN isEnd /\ ncalls[n] = 0
              ELSE ~isEnd /\ ncalls[n] = 1

C8_Witness ==
    /\ pc = "select"
    /\ Len(endnodes) = 1
    /\ lastPop.node = endnodes[1].node
    /\ \E n \in 2..Len(tree) : ncalls[n] = 1

\* the weights moe_layer gave batch element b, one per decoder pass
WeightsOf(b) == [j \in DOMAIN gate.moe_weights |-> gate.moe_weights[j][b]]

\* C9: when moe_layer has run, for every batch element the normaliser it
\* divided by is not zero and the mixture weights over the chair and the
\* experts sum to exactly 1, whatever the number of experts and the gate logits.
C9_WeightsSumToOne ==
    (mpc = "return" /\ mask_tensor.given) =>
        \A b \in Batch : /\ gate.norm_weights[b] # 0
                         /\ RatSum(WeightsOf(b)) = One

\* a step with the most experts whose batch rows got different logits and
\* different normalisers
C9_Witness ==
    /\ mpc = "return"
    /\ mask_tensor.given
    /\ Len(gate.moe_weights) = MaxIntents + 1
    /\ gate.logits[1] # gate.logits[2]
    /\ gate.norm_weights[1] # gate.norm_weights[2]
    /\ \E j \in DOMAIN gate.moe_weights : gate.moe_weights[j][1] # gate.moe_weights[1][1]

\* C10: with mask_tensor None forward goes straight to its return, and what it
\* returns is the output and hidden state of one expert_forward pass over the
\* unmasked arguments: that pass is the only one made, no expert pass is
\* collected and no gate is computed.
C10_NoMaskIsChairOnly ==
    (mode = "moe" /\ ~mask_tensor.given) =>
        /\ mpc \in {"forward", "return"}
        /\ mpc = "return" =>
              /\ returned = expert_forward(fwd_input, fwd_hidden, encoder_outputs)
              /\ passes = <<Pass(fwd_input, fwd_hidden, encoder_outputs)>>
              /\ decoder_output_list = <<>>
              /\ decoder_hidden_list = <<>>
              /\ gate = NoGate

C10_Witness ==
    /\ mpc = "return"
    /\ ~mask_tensor.given
    /\ Len(passes) = 1
    /\ Len(returned.output) = BatchSize

Interpolated(value, b) ==
    RatAdd(RatMul(gamma_expert,
                  RatSum([j \in DOMAIN gate.moe_weights |->
                             RatMul(gate.moe_weights[j][b], value[j])])),
           RatMul(<<gamma_expert[2] - gamma_expert[1], gamma_expert[2]>>, value[1]))

\* C12: a step that went through moe_layer returns, for every batch element,
\* output, h and c equal to gamma * (weighted sum over chair and experts) +
\* (1 - gamma) * (the chair's), with one and the same weights for the three;
\* with gamma = 0 it returns the chair's output and hidden state.
C12_GammaInterpolation ==
    (mpc = "return" /\ mask_tensor.given) =>
        /\ \A b \in Batch :
              LET J == DOMAIN decoder_output_list
                  out == [j \in J |-> decoder_output_list[j][b]]
                  h == [j \in J |-> decoder_hidden_list[j][b][1]]
                  c == [j \in J |-> decoder_hidden_list[j][b][2]]
              IN  /\ returned.output[b] = Interpolated(out, b)
                  /\ returned.hidden[b] = <<Interpolated(h, b), Interpolated(c, b)>>
        /\ gamma_expert = <<0, 1>> =>
              /\ returned.output = decoder_output_list[1]
              /\ returned.hidden = decoder_hidden_list[1]

\* a half-and-half step with the most experts in which the mixture moved the
\* output and the hidden state away from the chair's
C12_Witness ==
    /\ mpc = "return"
    /\ mask_tensor.given
    /\ gamma_expert = <<1, 2>>
    /\ Len(decoder_output_list) = MaxIntents + 1
    /\ returned.output[1] # decoder_output_list[1][1]
    /\ returned.hidden[1] # decoder_hidden_list[1][1]

\* the arguments of batch element b in a pass
ViewOf(p, b) == <<p.input[b], p.hidden[b], p.encoder_outputs[b]>>

\* what the caller handed in for b, and b as padding
OwnView(b) == <<fwd_input[b], fwd_hidden[b], encoder_outputs[b]>>
PadView == <<PAD_token, <<<<PAD_token, 1>>, <<PAD_token, 1>>>>, <<PAD_token, 1>>>>

\* C13: in tokenMoE the first pass is over the unmasked batch; the pass of the
\* k-th mask sees batch element b with its own token, hidden state and encoder
\* outputs where the mask leaves b alone (b belongs to the intent) and with all
\* three set to the padding value 3 where the mask marks b; when the step
\* returns, one expert pass was made per mask.
C13_ExpertViews ==
    (mode = "moe" /\ mask_tensor.given) =>
        /\ Len(passes) >= 1 => \A b \in Batch : ViewOf(passes[1], b) = OwnView(b)
        /\ \A k \in 1..(Len(passes) - 1) : \A b \in Batch :
              ViewOf(passes[k + 1], b) =
                  IF mask_tensor.masks[k][b] THEN PadView ELSE OwnView(b)
        /\ mpc = "return" => Len(passes) = Len(mask_tensor.masks) + 1

\* a returned step with the most masks, the first of which pads one element
\* and leaves another alone
C13_Witness ==
    /\ mpc = "return"
    /\ mask_tensor.given
    /\ Len(mask_tensor.masks) = MaxIntents
    /\ mask_tensor.masks[1][1]
    /\ ~mask_tensor.masks[1][2]
    /\ Len(passes) = MaxIntents + 1

\* position of the first end-of-sequence token among the max_len arg-max
\* tokens, max_len + 1 when there is none
FirstEOS ==
    IF \E i \in 1..max_len : decoded_words[i] = EOS_token
    THEN CHOOSE i \in 1..max_len :
            /\ decoded_words[i] = EOS_token
            /\ \A j \in 1..(i - 1) : decoded_words[j] # EOS_token
    ELSE max_len + 1

\* the token the decoder ranks first at step i of the chain that starts from
\* SOS and feeds every arg-max token back
ArgMaxOfStep(i) ==
    dec[<<SOS_token>> \o [j \in 1..(i - 1) |-> decoded_words[j]]][1].tok

\* C14: the sentence greedy_decode returns is the words of the arg-max tokens
\* of steps 0..max_len-1 before the first end-of-sequence token, all max_len of
\* them when there is none; nothing from that token on is in it.
C14_GreedyUpToFirstEOS ==
    greedy_sentences # <<>> =>
        /\ \A i \in 1..max_len : decoded_words[i] = ArgMaxOfStep(i)
        /\ greedy_sentences[1] =
              [i \in 1..(FirstEOS - 1) |-> output_lang_index2word[decoded_words[i]]]

\* a greedy sentence of two words or more that was cut at an end-of-sequence
\* token which another token followed
C14_Witness ==
    /\ greedy_sentences # <<>>
    /\ FirstEOS >= 3
    /\ FirstEOS < max_len
    /\ decoded_words[FirstEOS + 1] # EOS_token

\* C15: in Model.forward the decoder input is always a [batch, 1] tensor; the
\* first one holds the start-of-sequence token for every element, and the one
\* set after step t holds the target tokens of step t or the arg-max tokens
\* of step t: the targets when teacher_ratio = 1, the arg-max tokens when
\* teacher_ratio = 0.
C15_NextDecoderInput ==
    train_pc \in {"loop", "return", "raised"} =>
        /\ train_input.shape = "[B,1]"
        /\ (train_loop = 1 /\ train_t = 0) =>
              train_input.data = [b \in 1..batch_size |-> SOS_token]
        /\ train_t > 0 =>
              /\ \/ train_input.data = Column(target_tensor, train_t)
                 \/ train_input.data = topi
              /\ teacher_ratio = One =>
                    train_input.data = Column(target_tensor, train_t)
              /\ teacher_ratio = <<0, 1>> => train_input.data = topi

\* C16: two invocations of decode on the same turn with the same parameters
\* return the same sentence, whichever decoder the model was built with.
C16_SameSentenceTwice ==
    Len(greedy_sentences) = 2 => greedy_sentences[1] = greedy_sentences[2]

\* C17: an id without an entry in the id-to-string table does not fail the
\* turn (no lookup raises), and a string without an entry in the string-to-id
\* table maps to the unknown id 2.
C17_UnknownSubstituted ==
    /\ error # "UserWarning"
    /\ output_word2index("goodbye") = UNK_token
    /\ output_word2index("hello") = 4

\* some mask's batch dimension is not the batch size
MalformedMask ==
    /\ mask_tensor.given
    /\ \E k \in 1..Len(mask_tensor.masks) : Len(mask_tensor.masks[k]) # BatchSize

\* C18: with a mask whose batch dimension is not the batch size (size 1
\* included) the MoE step does not return: no result comes back and no expert
\* pass is made over a broadcast or cut mask.
C18_MalformedMaskFails ==
    (mode = "moe" /\ MalformedMask) =>
        /\ mpc # "return"
        /\ Len(passes) <= 1


\* the decode call has ended, by returning or by an exception
DecodeEnded == pc \in {"done", "raised"}

\* C19: in beam-search decode the sentence of a batch element depends only on
\* that element: once the search of element i has produced its sentence (as
\* it would in a batch holding element i alone), the decode returns it,
\* whatever the other elements of the batch do.
C19_ElementSentenceReturned ==
    DecodeEnded =>
        \A i \in 1..Len(decoded_sentences) : pc = "done"


\* the number of expansions (decoder calls of the loop) made so far for the
\* batch element
Expansions == IntSum(ncalls)

\* node c was made from entry k of the step result of its parent
ChildOf(c, k) ==
    LET p   == tree[c].prevNode
        out == dec[tree[c].h]
    IN  /\ tree[c].h = Append(tree[p].h, tree[p].wordid)
        /\ tree[c].wordid = out[k].tok
        /\ tree[c].logp = tree[p].logp + out[k].lp
        /\ tree[c].leng = tree[p].leng + 1

\* C20: every expansion pushes exactly beam_width nodes, made from the
\* beam_width entries of the step's top-k result, each with the expanded node
\* as parent, the parent's length plus one and the parent's log-probability
\* plus the token's; the counter qsize grows by exactly beam_width with each
\* expansion; the root is the only node without a parent and holds SOS with
\* log-probability 0.
C20_ExpansionPushesK ==
    tree # <<>> =>
        /\ tree[1].prevNode = None
        /\ tree[1].wordid = SOS_token
        /\ tree[1].logp = 0
        /\ \A c \in 2..Len(tree) :
              /\ tree[c].prevNode \in 1..(c - 1)
              /\ \E k \in 1..beam_width : ChildOf(c, k)
        /\ \A p \in 1..Len(tree) :
              Cardinality({c \in 2..Len(tree) : tree[c].prevNode = p})
                  = beam_width * ncalls[p]
        /\ qsize = 1 + beam_width * Expansions


\* the inputs the greedy loop fed to the decoder at its first i steps: the
\* start-of-sequence token, then the arg-max token of each step before
FedBack(i) == [j \in 1..i |-> IF j = 1 THEN SOS_token ELSE decoded_words[j - 1]]

\* C21: greedy_decode calls the decoder exactly max_len times whatever tokens
\* are predicted, a predicted end-of-sequence token neither halts nor shortens
\* the loop, and every step after the first is fed the arg-max token of the
\* step before it.
C21_GreedyRunsMaxLenSteps ==
    /\ pc = "greedy" =>
          /\ t <= max_len
          /\ decoder_hidden = FedBack(t)
          /\ decoder_input = IF t = 0 THEN SOS_token ELSE decoded_words[t]
    /\ greedy_sentences # <<>> =>
          /\ t = max_len
          /\ decoder_hidden = FedBack(max_len)

\* a finished greedy decode whose first prediction was the end-of-sequence
\* token and which went on to predict three more words
C21_Witness ==
    /\ greedy_sentences # <<>>
    /\ max_len >= 4
    /\ t = max_len
    /\ decoded_words[1] = EOS_token
    /\ \A i \in 2..4 : decoded_words[i] # EOS_token


\* target_tensor.size(1)
target_length == Len(target_tensor[1])

\* C22: when Model.forward returns it has called the decoder exactly once per
\* target position, and slot t of proba holds the output of step t of the one
\* sequence of steps that started from the start-of-sequence token and the
\* policy's hidden state, whatever teacher_ratio and SentMoE are.
C22_OneStepPerTargetPosition ==
    train_pc = "return" =>
        /\ train_hidden = target_length
        /\ \A slot \in 1..target_length : proba[slot] = slot


\* the arguments of the call for b, as they were handed in
ArgView(b) == <<input[b], hidden[b], encoder_outputs_arg[b]>>

\* C23: tokenMoE leaves the caller's previous-token tensor, hidden state and
\* encoder outputs as they were handed in, at every point of the step and
\* after it returns; the chair's pass sees them unmasked, and the view of
\* expert k is made from them with mask k alone, whatever the masks of the
\* experts before it.
C23_CallerTensorsUnchanged ==
    (mode = "moe" /\ mask_tensor.given) =>
        /\ fwd_input = input
        /\ fwd_hidden = hidden
        /\ encoder_outputs = encoder_outputs_arg
        /\ Len(passes) >= 1 => \A b \in Batch : ViewOf(passes[1], b) = ArgView(b)
        /\ \A k \in 1..(Len(passes) - 1) : \A b \in Batch :
              ViewOf(passes[k + 1], b) =
                  IF mask_tensor.masks[k][b] THEN PadView ELSE ArgView(b)

\* a returned step of two experts in which the first expert's mask padded a
\* batch element that the second expert's mask left alone
C23_Witness ==
    /\ mpc = "return"
    /\ mask_tensor.given
    /\ Len(mask_tensor.masks) >= 2
    /\ Len(passes) = Len(mask_tensor.masks) + 1
    /\ \E b \in Batch : mask_tensor.masks[1][b] /\ ~mask_tensor.masks[2][b]


\* the model has been constructed
Built == pc # "build"

\* C24: for every combination of intent_type, use_moe_model, use_attn and
\* attention_type, build_model assigns self.decoder exactly one decoder: the
\* MoE decoder when intent_type and use_moe_model are set, otherwise the
\* attention decoder when use_attn is set, otherwise the plain decoder.
C24_DecoderAssigned ==
    Built =>
        decoder_type =
            IF Truthy(args.intent_type) /\ args.use_moe_model THEN "moe"
            ELSE IF args.use_attn THEN "attn"
            ELSE "plain"


\* C25: the mixture weights moe_layer computes keep the order of the gate
\* logits: for every batch element, a pass (chair or expert) with a larger
\* gate logit than another never gets a smaller weight than it.
C25_WeightsFollowLogits ==
    (mpc = "return" /\ mask_tensor.given) =>
        \A b \in Batch : \A j, k \in DOMAIN gate.moe_weights :
            gate.logits[b][j] > gate.logits[b][k] =>
                ~RatLT(gate.moe_weights[j][b], gate.moe_weights[k][b])


\* C26: whenever beam search is about to take a node from the priority
\* queue, by the get() of the main loop or by the topk get() calls of the
\* fallback for no completed hypothesis, the queue holds the nodes asked for:
\* no get() waits on an empty queue.
C26_GetNeverBlocks ==
    /\ pc # "blocked"
    /\ (pc = "loop" /\ ~GiveUp(qsize)) => nodes # <<>>
    /\ (pc = "select" /\ endnodes = <<>>) => Len(nodes) >= topk

\* the fallback about to take its node, after the widest beam was expanded up
\* to the cap with no hypothesis completed
C26_Witness ==
    /\ pc = "select"
    /\ endnodes = <<>>
    /\ beam_width = MaxBeam
    /\ lastPop.node # None
    /\ Len(nodes) >= beam_width
====
